---------------------------- MODULE Spec2Model ----------------------------
(***************************************************************************)
(* Model of the dynamic-programming programs of the repository:            *)
(*   src/src/binary_tree.cpp      optimalBST, printOptimalStructure, main  *)
(*   src/src/knapsack_problem.cpp knapsack01, main                         *)
(*   src/src/lcs-length.cpp       lcsLength, printLCS, main                *)
(*   src/src/matrix_chain.cpp     matrixChainOrder, main                   *)
(*   src/src/rod_cutting.cpp      cutRod, main                             *)
(* Probabilities are modelled as integers (hundredths), std::vector as a   *)
(* function over 0..size-1, a vector of vectors as a function of rows.     *)
(***************************************************************************)
EXTENDS Integers, Sequences, FiniteSets

VARIABLES
    p, q, n,        \* optimalBST: the arguments p, q, n
    e, w, root,     \* optimalBST: the three tables passed by reference
    l, i, r,        \* optimalBST: the loop variables (j is i + l - 1)
    stack, out,     \* printOptimalStructure: pending calls, facts printed
    pc,             \* position of the running program
    ub,             \* an access outside a vector has happened
    calls,          \* number of optimalBST calls made on the same tables
    trace,          \* whether the history of reads and writes is kept
    used,           \* history: the cells read as operands in this call
    writes,         \* history: how often each cell was written in this call
    W, wt, val, kn, \* knapsack01: the arguments W, wt, val, n
    K, d,           \* knapsack01: the two tables passed by reference
    ki, kw,         \* knapsack01: the loop variables i and w
    X, Y,           \* lcsLength: the strings X and Y
    lcs_c, lcs_b,   \* lcsLength: the tables c and b passed by reference
    lcs_i, lcs_j,   \* lcsLength: loop variables; printLCS: arguments i, j
    lcs_stack,      \* printLCS: the calls waiting for their callee
    lcs_out,        \* printLCS: the characters printed
    dims,           \* matrixChainOrder: the argument p
    m_table,        \* matrixChainOrder: the local table
    L, mc_i, mc_k,  \* matrixChainOrder: the loop variables L, i, k
    min_cost,       \* matrixChainOrder: the value returned
    prices, rod_n,  \* cutRod: the arguments prices and n
    rod_val,        \* cutRod: the local table val
    rod_j, rod_i,   \* cutRod: the loop variables j and i
    max_val,        \* cutRod: the local max_val
    revenue         \* cutRod: the value returned

bstVars == <<p, q, n, e, w, root, l, i, r, stack, out, ub, calls, trace, used, writes>>

knapVars == <<W, wt, val, kn, K, d, ki, kw>>

\* What an action of one program leaves alone: the other programs' state.
lcsVars == <<X, Y, lcs_c, lcs_b, lcs_i, lcs_j, lcs_stack, lcs_out>>

chainVars == <<dims, m_table, L, mc_i, mc_k, min_cost>>

rodVars == <<prices, rod_n, rod_val, rod_j, rod_i, max_val, revenue>>

notBST == <<knapVars, lcsVars, chainVars, rodVars>>

notKnapsack == <<bstVars, lcsVars, chainVars, rodVars>>

notLcs == <<bstVars, knapVars, chainVars, rodVars>>

notChain == <<bstVars, knapVars, lcsVars, rodVars>>

notRod == <<bstVars, knapVars, lcsVars, chainVars>>

vars == <<pc, bstVars, knapVars, lcsVars, chainVars, rodVars>>

(***************************************************************************)
(* Bounds of the model.                                                    *)
(***************************************************************************)
MaxN == 3          \* number of keys of an enumerated input
MaxW == 1          \* largest weight (hundredths) of an enumerated input
MaxCalls == 2      \* calls of optimalBST on the same table objects
MaxItems == 3      \* number of items of an enumerated knapsack input
MaxCap == 3        \* largest capacity of an enumerated knapsack input
MaxWt == 2         \* largest item weight of an enumerated knapsack input
MaxVal == 2        \* largest item value of an enumerated knapsack input
MaxLen == 3        \* length of an enumerated string of the LCS input
MaxDims == 5       \* length of an enumerated dimension vector
MaxDim == 3        \* largest dimension of an enumerated dimension vector
MaxPieces == 3     \* length of an enumerated price vector
MaxPrice == 3      \* largest price of an enumerated price vector
MaxRod == 5        \* largest rod length of an enumerated input

\* std::numeric_limits<double>::max(): above every cost the model can reach.
DBL_MAX == 2000000000

\* <climits>, 32-bit int.
INT_MAX == 2147483647

INT_MIN == -INT_MAX - 1

(***************************************************************************)
(* std::vector                                                             *)
(***************************************************************************)
EmptyVec == [k \in {} |-> 0]

Size(v) == Cardinality(DOMAIN v)

\* std::vector<T>(m): m value-initialised elements.
ZeroVec(m) == [k \in 0..(m - 1) |-> 0]

\* v.resize(m, row): keeps the first m elements as they are, appends copies
\* of row up to size m.
resize(v, m, row) == [k \in 0..(m - 1) |-> IF k \in DOMAIN v THEN v[k] ELSE row]

InVec(v, k) == k \in DOMAIN v

InBounds(t, a, b) == a \in DOMAIN t /\ b \in DOMAIN t[a]

\* The values a read can produce: the element, or anything when the index is
\* outside the vector.
Garbage == {0, 1}

ReadVec(v, k) == IF InVec(v, k) THEN {v[k]} ELSE Garbage

Read(t, a, b) == IF InBounds(t, a, b) THEN {t[a][b]} ELSE Garbage

\* A write outside the vector does not change the vector.
Write(t, a, b, x) == IF InBounds(t, a, b) THEN [t EXCEPT ![a][b] = x] ELSE t

(***************************************************************************)
(* optimalBST                                                              *)
(***************************************************************************)
j == i + l - 1

\* The history of writes: for each table, the number of writes to each of
\* its cells; a cell is <<table, row, column>>.
NoWrites == [t \in {"e", "w", "root"} |-> [a \in 0..(n + 1) |-> ZeroVec(n + 2)]]

TimesWritten(h, x) == h[x[1]][x[2]][x[3]]

Count(h, x) == IF trace THEN [h EXCEPT ![x[1]][x[2]][x[3]] = @ + 1] ELSE h

\* The history of reads: the operand cells S join the cells read so far.
Operands(S) == IF trace THEN used \cup S ELSE used

\* Lines 35-37.
ResizeTable(t) == resize(t, n + 2, ZeroVec(n + 2))

SizeTables ==
    /\ pc = "resize"
    /\ e' = ResizeTable(e)
    /\ w' = ResizeTable(w)
    /\ root' = ResizeTable(root)
    /\ pc' = "base"
    /\ i' = 1
    /\ used' = {}
    /\ writes' = IF trace THEN NoWrites ELSE EmptyVec
    /\ UNCHANGED <<p, q, n, l, r, stack, out, ub, calls, trace, notBST>>

\* Line 43-44: the value stored for the empty interval [k, k-1].
BaseValue(qv, k) == ReadVec(qv, k - 1)

BaseInBounds ==
    /\ InVec(q, i - 1)
    /\ InBounds(e, i, i - 1)
    /\ InBounds(w, i, i - 1)

\* Lines 42-45, one iteration.
BaseCase ==
    /\ pc = "base"
    /\ \E x \in BaseValue(q, i) :
          /\ e' = Write(e, i, i - 1, x)
          /\ w' = Write(w, i, i - 1, x)
    /\ ub' = (ub \/ ~BaseInBounds)
    /\ writes' = Count(Count(writes, <<"e", i, i - 1>>), <<"w", i, i - 1>>)
    /\ IF i + 1 <= n + 1
          THEN /\ i' = i + 1
               /\ pc' = "base"
               /\ l' = l
          ELSE IF 1 <= n
                  THEN /\ l' = 1
                       /\ i' = 1
                       /\ pc' = "cell"
                  ELSE /\ l' = 0
                       /\ i' = 0
                       /\ pc' = "built"
    /\ UNCHANGED <<p, q, n, root, r, stack, out, calls, trace, used, notBST>>

WeightSum_NoGap(wprev, pj, qj) == wprev + pj

WeightOperand_Self(a, b) == <<a, b>>

\* Line 62: w[i][j - 1], the weight cell read for the interval [a, b].
WeightOperand(a, b) == <<a, b - 1>>

\* Line 62.
WeightSum(wprev, pj, qj) == wprev + pj + qj

CellInBounds ==
    /\ InBounds(e, i, j)
    /\ InBounds(w, i, j - 1)
    /\ InBounds(w, i, j)
    /\ InVec(p, j)
    /\ InVec(q, j)

\* Lines 55-62.
CellInit ==
    /\ pc = "cell"
    /\ e' = Write(e, i, j, DBL_MAX)
    /\ \E wprev \in Read(w, WeightOperand(i, j)[1], WeightOperand(i, j)[2]),
          pj \in ReadVec(p, j), qj \in ReadVec(q, j) :
          w' = Write(w, i, j, WeightSum(wprev, pj, qj))
    /\ ub' = (ub \/ ~CellInBounds)
    /\ writes' = Count(Count(writes, <<"e", i, j>>), <<"w", i, j>>)
    /\ used' = Operands({<<"w">> \o WeightOperand(i, j)})
    /\ r' = i
    /\ pc' = "scan"
    /\ UNCHANGED <<p, q, n, root, l, i, stack, out, calls, trace, notBST>>

SplitCost_NoWeight(left, right, wij) == left + right

\* Line 71: e[i][r - 1] and e[r + 1][j], the cost cells read for the
\* interval [a, b] split at k.
LeftOperand(a, k) == <<a, k - 1>>

RightOperand(k, b) == <<k + 1, b>>

\* Line 71.
SplitCost(left, right, wij) == left + right + wij

Better_OrEqual(cost, best) == cost <= best

Better_Always(cost, best) == TRUE

\* Line 74.
Better(cost, best) == cost < best

ScanInBounds ==
    /\ InBounds(e, i, r - 1)
    /\ InBounds(e, r + 1, j)
    /\ InBounds(w, i, j)
    /\ InBounds(e, i, j)
    /\ InBounds(root, i, j)

\* Lines 67-78, one iteration, and the loop headers of lines 49 and 52.
ScanStep ==
    /\ pc = "scan"
    /\ \E left \in Read(e, LeftOperand(i, r)[1], LeftOperand(i, r)[2]),
          right \in Read(e, RightOperand(r, j)[1], RightOperand(r, j)[2]),
          wij \in Read(w, i, j), best \in Read(e, i, j) :
          LET cost == SplitCost(left, right, wij)
          IN  IF Better(cost, best)
                 THEN /\ e' = Write(e, i, j, cost)
                      /\ root' = Write(root, i, j, r)
                      /\ writes' = Count(Count(writes, <<"e", i, j>>), <<"root", i, j>>)
                 ELSE UNCHANGED <<e, root, writes>>
    /\ ub' = (ub \/ ~ScanInBounds)
    /\ used' = Operands({<<"e">> \o LeftOperand(i, r), <<"e">> \o RightOperand(r, j)})
    /\ IF r + 1 <= j
          THEN /\ r' = r + 1
               /\ pc' = "scan"
               /\ UNCHANGED <<l, i>>
          ELSE IF i + 1 <= n - l + 1
                  THEN /\ i' = i + 1
                       /\ r' = 0
                       /\ pc' = "cell"
                       /\ l' = l
                  ELSE IF l + 1 <= n
                          THEN /\ l' = l + 1
                               /\ i' = 1
                               /\ r' = 0
                               /\ pc' = "cell"
                          ELSE /\ l' = 0
                               /\ i' = 0
                               /\ r' = 0
                               /\ pc' = "built"
    /\ UNCHANGED <<p, q, n, w, stack, out, calls, trace, notBST>>

\* An access outside a vector may also end the program.
StepInBounds ==
    CASE pc = "base" -> BaseInBounds
      [] pc = "cell" -> CellInBounds
      [] pc = "scan" -> ScanInBounds
      [] OTHER -> TRUE

Crash ==
    /\ ~StepInBounds
    /\ pc' = "crashed"
    /\ ub' = TRUE
    /\ UNCHANGED <<p, q, n, e, w, root, l, i, r, stack, out, calls, trace, used, writes, notBST>>

(***************************************************************************)
(* printOptimalStructure, with the pending recursive calls on a stack      *)
(***************************************************************************)
Frame(a, b, parent_r, is_left_child) ==
    [i |-> a, j |-> b, parent_r |-> parent_r, is_left_child |-> is_left_child]

Side_Swapped(is_left_child) == IF is_left_child THEN "right" ELSE "left"

Side(is_left_child) == IF is_left_child THEN "left" ELSE "right"

GapFact_Start(a, b, parent_r, is_left_child) ==
    [kind |-> "gap", node |-> a, parent |-> parent_r,
     side |-> IF is_left_child THEN "left" ELSE "right"]

\* Line 105: "d_j is the <side> child of k_parent".
GapFact(a, b, parent_r, is_left_child) ==
    [kind |-> "gap", node |-> b, parent |-> parent_r, side |-> Side(is_left_child)]

IsGap_Never(a, b) == b < a - 1

\* Line 103.
IsGap(a, b) == b = a - 1

\* Lines 115-120.
KeyFact(k, parent_r, is_left_child) ==
    IF parent_r = 0
       THEN [kind |-> "root", node |-> k, parent |-> 0, side |-> "none"]
       ELSE [kind |-> "child", node |-> k, parent |-> parent_r,
             side |-> Side(is_left_child)]

Children_RightFirst(a, b, k) ==
    <<[i |-> k + 1, j |-> b, parent_r |-> k, is_left_child |-> FALSE],
      [i |-> a, j |-> k - 1, parent_r |-> k, is_left_child |-> TRUE]>>

\* Lines 123 and 126: the two recursive calls, the left one made first.
Children(a, b, k) == <<Frame(a, k - 1, k, TRUE), Frame(k + 1, b, k, FALSE)>>

\* main, line 179.
PrintCall ==
    /\ pc = "built"
    /\ stack' = <<Frame(1, n, 0, FALSE)>>
    /\ out' = <<>>
    /\ pc' = "print"
    /\ UNCHANGED <<p, q, n, e, w, root, l, i, r, ub, calls, trace, used, writes, notBST>>

AfterReturn(rest) == IF rest = <<>> THEN "done" ELSE "print"

\* Lines 101-108.
PrintGap ==
    /\ pc = "print"
    /\ stack # <<>>
    /\ LET f == Head(stack)
       IN  /\ f.i > f.j
           /\ out' = IF IsGap(f.i, f.j)
                        THEN Append(out, GapFact(f.i, f.j, f.parent_r, f.is_left_child))
                        ELSE out
           /\ stack' = Tail(stack)
           /\ pc' = AfterReturn(Tail(stack))
    /\ UNCHANGED <<p, q, n, e, w, root, l, i, r, ub, calls, trace, used, writes, notBST>>

\* Lines 112-126.
PrintKey ==
    /\ pc = "print"
    /\ stack # <<>>
    /\ LET f == Head(stack)
           k == root[f.i][f.j]
       IN  /\ f.i <= f.j
           /\ out' = Append(out, KeyFact(k, f.parent_r, f.is_left_child))
           /\ stack' = Children(f.i, f.j, k) \o Tail(stack)
    /\ pc' = "print"
    /\ UNCHANGED <<p, q, n, e, w, root, l, i, r, ub, calls, trace, used, writes, notBST>>

(***************************************************************************)
(* Inputs                                                                  *)
(***************************************************************************)
Weights == 0..MaxW

\* p[0] is the unused element, 0.0 in main (line 148).
KeyVectors(m) == {v \in [0..m -> Weights] : v[0] = 0}

GapVectors(m) == [0..m -> Weights]

\* main, lines 139-151, in hundredths.
RefN == 5

RefP == [k \in 0..5 |-> CASE k = 0 -> 0 [] k = 1 -> 15 [] k = 2 -> 10
                          [] k = 3 -> 5 [] k = 4 -> 10 [] k = 5 -> 20]

RefQ == [k \in 0..5 |-> CASE k = 0 -> 5 [] k = 1 -> 10 [] k = 2 -> 5
                          [] k = 3 -> 5 [] k = 4 -> 5 [] k = 5 -> 10]

IsRef == n = RefN /\ p = RefP /\ q = RefQ

LcsIdle ==
    /\ X = <<>> /\ Y = <<>>
    /\ lcs_c = EmptyVec /\ lcs_b = EmptyVec
    /\ lcs_i = 0 /\ lcs_j = 0
    /\ lcs_stack = <<>> /\ lcs_out = <<>>

ChainIdle ==
    /\ dims = EmptyVec /\ m_table = EmptyVec
    /\ L = 0 /\ mc_i = 0 /\ mc_k = 0
    /\ min_cost = 0

RodIdle ==
    /\ prices = EmptyVec /\ rod_n = 0 /\ rod_val = EmptyVec
    /\ rod_j = 0 /\ rod_i = 0
    /\ max_val = 0 /\ revenue = 0

KnapsackIdle ==
    /\ W = 0 /\ wt = EmptyVec /\ val = EmptyVec /\ kn = 0
    /\ K = EmptyVec /\ d = EmptyVec
    /\ ki = 0 /\ kw = 0

Idle ==
    /\ l = 0 /\ i = 0 /\ r = 0
    /\ stack = <<>> /\ out = <<>>
    /\ ub = FALSE
    /\ calls = 1
    /\ used = {} /\ writes = EmptyVec

\* main, lines 160-165: fresh tables, one call, then the report.
Init ==
    /\ \/ /\ n \in 0..MaxN
          /\ p \in KeyVectors(n)
          /\ q \in GapVectors(n)
       \/ IsRef
    /\ e = EmptyVec /\ w = EmptyVec /\ root = EmptyVec
    /\ pc = "resize"
    /\ Idle /\ trace = FALSE
    /\ KnapsackIdle /\ LcsIdle /\ ChainIdle /\ RodIdle

Next ==
    \/ SizeTables
    \/ BaseCase
    \/ CellInit
    \/ ScanStep
    \/ PrintCall
    \/ PrintGap
    \/ PrintKey

Spec == Init /\ [][Next]_vars

\* optimalBST as main calls it (lines 160-165), with the history of its reads
\* and writes kept.
InitTrace ==
    /\ \/ /\ n \in 0..MaxN
          /\ p \in KeyVectors(n)
          /\ q \in GapVectors(n)
       \/ IsRef
    /\ e = EmptyVec /\ w = EmptyVec /\ root = EmptyVec
    /\ pc = "resize"
    /\ Idle /\ trace = TRUE
    /\ KnapsackIdle /\ LcsIdle /\ ChainIdle /\ RodIdle

NextTrace ==
    \/ SizeTables
    \/ BaseCase
    \/ CellInit
    \/ ScanStep

SpecTrace == InitTrace /\ [][NextTrace]_vars

(***************************************************************************)
(* Several calls of optimalBST on the same table objects                   *)
(***************************************************************************)
UnitVector(m) == [k \in 0..m |-> 1]

\* A later call: new arguments, the tables as the earlier call left them.
NewCall ==
    /\ pc = "built"
    /\ calls < MaxCalls
    /\ calls' = calls + 1
    /\ n' \in 0..MaxN
    /\ p' = [UnitVector(n') EXCEPT ![0] = 0]
    /\ q' = UnitVector(n')
    /\ pc' = "resize"
    /\ UNCHANGED <<e, w, root, l, i, r, stack, out, ub, trace, used, writes, notBST>>

InitReuse ==
    /\ n \in 0..MaxN
    /\ p = [UnitVector(n) EXCEPT ![0] = 0]
    /\ q = UnitVector(n)
    /\ e = EmptyVec /\ w = EmptyVec /\ root = EmptyVec
    /\ pc = "resize"
    /\ Idle /\ trace = FALSE
    /\ KnapsackIdle /\ LcsIdle /\ ChainIdle /\ RodIdle

NextReuse ==
    \/ SizeTables
    \/ BaseCase
    \/ CellInit
    \/ ScanStep
    \/ Crash
    \/ NewCall

SpecReuse == InitReuse /\ [][NextReuse]_vars

(***************************************************************************)
(* optimalBST called with malformed probability vectors                    *)
(***************************************************************************)
MaxInvalidN == 2

\* Vectors of m elements, negative ones among them.
AnyVectors(m) == [0..(m - 1) -> {-1} \cup Weights]

Negative(v) == \E k \in DOMAIN v : v[k] < 0

InvalidInput ==
    \/ Size(p) # n + 1
    \/ Size(q) # n + 1
    \/ Negative(p)
    \/ Negative(q)

InitInvalid ==
    /\ n \in 0..MaxInvalidN
    /\ \E m \in n..(n + 2) : p \in {v \in AnyVectors(m) : m = 0 \/ v[0] = 0}
    /\ \E m \in n..(n + 2) : q \in AnyVectors(m)
    /\ InvalidInput
    /\ e = EmptyVec /\ w = EmptyVec /\ root = EmptyVec
    /\ pc = "resize"
    /\ Idle /\ trace = FALSE
    /\ KnapsackIdle /\ LcsIdle /\ ChainIdle /\ RodIdle

NextInvalid ==
    \/ SizeTables
    \/ BaseCase
    \/ CellInit
    \/ ScanStep
    \/ Crash

SpecInvalid == InitInvalid /\ [][NextInvalid]_vars

(***************************************************************************)
(* knapsack01                                                              *)
(***************************************************************************)
\* Lines 34-35.
KnapsackSize ==
    /\ pc = "k_resize"
    /\ K' = resize(K, kn + 1, ZeroVec(W + 1))
    /\ d' = resize(d, kn + 1, [k \in 0..W |-> "NONE"])
    /\ ki' = 0
    /\ kw' = 0
    /\ pc' = "k_fill"
    /\ UNCHANGED <<W, wt, val, kn, notKnapsack>>

\* Lines 44-70: the value and the decision stored in cell (a, c).
KnapsackEntry(a, c) ==
    IF a = 0 \/ c = 0
       THEN <<0, "NONE">>
       ELSE IF wt[a - 1] <= c
               THEN LET val_exclude == K[a - 1][c]
                        val_include == val[a - 1] + K[a - 1][c - wt[a - 1]]
                    IN  IF val_include > val_exclude
                           THEN <<val_include, "KEEP">>
                           ELSE <<val_exclude, "SKIP">>
               ELSE <<K[a - 1][c], "SKIP">>

\* Lines 40-72, one iteration of the inner loop.
KnapsackCell ==
    /\ pc = "k_fill"
    /\ K' = [K EXCEPT ![ki][kw] = KnapsackEntry(ki, kw)[1]]
    /\ d' = [d EXCEPT ![ki][kw] = KnapsackEntry(ki, kw)[2]]
    /\ IF kw + 1 <= W
          THEN /\ kw' = kw + 1
               /\ ki' = ki
               /\ pc' = "k_fill"
          ELSE IF ki + 1 <= kn
                  THEN /\ kw' = 0
                       /\ ki' = ki + 1
                       /\ pc' = "k_fill"
                  ELSE /\ kw' = 0
                       /\ ki' = 0
                       /\ pc' = "k_done"
    /\ UNCHANGED <<W, wt, val, kn, notKnapsack>>

Vector3(x, y, z) == [k \in 0..2 |-> CASE k = 0 -> x [] k = 1 -> y [] k = 2 -> z]

\* main, lines 123-126 (Teste 1) and 146-149 (Teste 2).
IsTest1 == kn = 3 /\ W = 50 /\ wt = Vector3(10, 20, 30) /\ val = Vector3(60, 100, 120)

IsTest2 == kn = 3 /\ W = 7 /\ wt = Vector3(5, 4, 3) /\ val = Vector3(10, 9, 9)

BSTIdle ==
    /\ p = EmptyVec /\ q = EmptyVec /\ n = 0
    /\ e = EmptyVec /\ w = EmptyVec /\ root = EmptyVec
    /\ l = 0 /\ i = 0 /\ r = 0
    /\ stack = <<>> /\ out = <<>>
    /\ ub = FALSE
    /\ calls = 0
    /\ trace = FALSE /\ used = {} /\ writes = EmptyVec

\* knapsack01 called on empty tables (main, lines 118-119 and 133).
InitKnapsack ==
    /\ \/ /\ kn \in 0..MaxItems
          /\ W \in 0..MaxCap
          /\ wt \in [0..(kn - 1) -> 0..MaxWt]
          /\ val \in [0..(kn - 1) -> 0..MaxVal]
       \/ IsTest1
       \/ IsTest2
    /\ K = EmptyVec /\ d = EmptyVec
    /\ ki = 0 /\ kw = 0
    /\ pc = "k_resize"
    /\ BSTIdle
    /\ LcsIdle /\ ChainIdle /\ RodIdle

NextKnapsack ==
    \/ KnapsackSize
    \/ KnapsackCell

SpecKnapsack == InitKnapsack /\ [][NextKnapsack]_vars

(***************************************************************************)
(* lcsLength and printLCS. A std::string is a sequence of characters, its  *)
(* element k (0-indexed) the k+1-th of the sequence.                       *)
(***************************************************************************)
CharAt(str, k) == str[k + 1]

\* Lines 35-36: m = X.length(), n = Y.length().
lcs_m == Len(X)

lcs_n == Len(Y)

\* Lines 41-42: both tables are built anew, whatever they held.
LcsAllocate ==
    /\ pc = "lcs_alloc"
    /\ lcs_c' = [a \in 0..lcs_m |-> [k \in 0..lcs_n |-> 0]]
    /\ lcs_b' = [a \in 0..lcs_m |-> [k \in 0..lcs_n |-> "NONE"]]
    /\ lcs_i' = 0
    /\ pc' = "lcs_col"
    /\ UNCHANGED <<X, Y, lcs_j, lcs_stack, lcs_out, notLcs>>

\* Lines 48-51, one iteration.
LcsBaseColumn ==
    /\ pc = "lcs_col"
    /\ lcs_c' = [lcs_c EXCEPT ![lcs_i][0] = 0]
    /\ IF lcs_i + 1 <= lcs_m
          THEN /\ lcs_i' = lcs_i + 1
               /\ pc' = "lcs_col"
          ELSE /\ lcs_i' = 0
               /\ pc' = "lcs_row"
    /\ lcs_j' = 0
    /\ UNCHANGED <<X, Y, lcs_b, lcs_stack, lcs_out, notLcs>>

\* Lines 53-56, one iteration, and the loop headers of lines 61 and 63.
LcsBaseRow ==
    /\ pc = "lcs_row"
    /\ lcs_c' = [lcs_c EXCEPT ![0][lcs_j] = 0]
    /\ IF lcs_j + 1 <= lcs_n
          THEN /\ lcs_j' = lcs_j + 1
               /\ lcs_i' = 0
               /\ pc' = "lcs_row"
          ELSE IF 1 <= lcs_m /\ 1 <= lcs_n
                  THEN /\ lcs_i' = 1
                       /\ lcs_j' = 1
                       /\ pc' = "lcs_fill"
                  ELSE /\ lcs_i' = 0
                       /\ lcs_j' = 0
                       /\ pc' = "lcs_filled"
    /\ UNCHANGED <<X, Y, lcs_b, lcs_stack, lcs_out, notLcs>>

LcsEntry_FromAbove(a, k) ==
    IF CharAt(X, a - 1) = CharAt(Y, k - 1)
       THEN <<lcs_c[a - 1][k] + 1, "DIAGONAL">>
       ELSE IF lcs_c[a - 1][k] >= lcs_c[a][k - 1]
               THEN <<lcs_c[a - 1][k], "UP">>
               ELSE <<lcs_c[a][k - 1], "LEFT">>

\* Lines 70-94: the length and the direction stored in cell (a, k).
LcsEntry(a, k) ==
    IF CharAt(X, a - 1) = CharAt(Y, k - 1)
       THEN <<lcs_c[a - 1][k - 1] + 1, "DIAGONAL">>
       ELSE IF lcs_c[a - 1][k] >= lcs_c[a][k - 1]
               THEN <<lcs_c[a - 1][k], "UP">>
               ELSE <<lcs_c[a][k - 1], "LEFT">>

\* Lines 61-96, one iteration of the inner loop.
LcsCell ==
    /\ pc = "lcs_fill"
    /\ lcs_c' = [lcs_c EXCEPT ![lcs_i][lcs_j] = LcsEntry(lcs_i, lcs_j)[1]]
    /\ lcs_b' = [lcs_b EXCEPT ![lcs_i][lcs_j] = LcsEntry(lcs_i, lcs_j)[2]]
    /\ IF lcs_j + 1 <= lcs_n
          THEN /\ lcs_j' = lcs_j + 1
               /\ lcs_i' = lcs_i
               /\ pc' = "lcs_fill"
          ELSE IF lcs_i + 1 <= lcs_m
                  THEN /\ lcs_j' = 1
                       /\ lcs_i' = lcs_i + 1
                       /\ pc' = "lcs_fill"
                  ELSE /\ lcs_j' = 0
                       /\ lcs_i' = 0
                       /\ pc' = "lcs_filled"
    /\ UNCHANGED <<X, Y, lcs_stack, lcs_out, notLcs>>

\* main, lines 170, 190, 216: printLCS(b, X, m, n).
PrintLcsCall ==
    /\ pc = "lcs_filled"
    /\ lcs_i' = lcs_m
    /\ lcs_j' = lcs_n
    /\ lcs_stack' = <<>>
    /\ lcs_out' = <<>>
    /\ pc' = "lcs_print"
    /\ UNCHANGED <<X, Y, lcs_c, lcs_b, notLcs>>

LcsAfterReturn(rest) == IF rest = <<>> THEN "lcs_done" ELSE "lcs_unwind"

\* Lines 113-116: the base case returns.
PrintLcsBase ==
    /\ pc = "lcs_print"
    /\ (lcs_i = 0 \/ lcs_j = 0)
    /\ pc' = LcsAfterReturn(lcs_stack)
    /\ lcs_i' = 0
    /\ lcs_j' = 0
    /\ UNCHANGED <<X, Y, lcs_c, lcs_b, lcs_stack, lcs_out, notLcs>>

LcsFollow_DiagonalUp(dir, a, k) ==
    CASE dir = "DIAGONAL" -> <<a - 1, k>>
      [] dir = "UP" -> <<a - 1, k>>
      [] OTHER -> <<a, k - 1>>

\* Lines 119-137: the arguments of the recursive call made from (a, k).
LcsFollow(dir, a, k) ==
    CASE dir = "DIAGONAL" -> <<a - 1, k - 1>>
      [] dir = "UP" -> <<a - 1, k>>
      [] OTHER -> <<a, k - 1>>

\* Lines 119-136: the recursive call; the caller waits on the stack.
PrintLcsDescend ==
    /\ pc = "lcs_print"
    /\ lcs_i # 0 /\ lcs_j # 0
    /\ lcs_stack' = <<<<lcs_i, lcs_j>>>> \o lcs_stack
    /\ lcs_i' = LcsFollow(lcs_b[lcs_i][lcs_j], lcs_i, lcs_j)[1]
    /\ lcs_j' = LcsFollow(lcs_b[lcs_i][lcs_j], lcs_i, lcs_j)[2]
    /\ pc' = "lcs_print"
    /\ UNCHANGED <<X, Y, lcs_c, lcs_b, lcs_out, notLcs>>

\* Lines 126 and 138: after its callee returned, the caller prints X[i-1] if
\* its direction is DIAGONAL, and returns.
PrintLcsReturn ==
    /\ pc = "lcs_unwind"
    /\ lcs_stack # <<>>
    /\ LET f == Head(lcs_stack)
       IN  lcs_out' = IF lcs_b[f[1]][f[2]] = "DIAGONAL"
                         THEN Append(lcs_out, CharAt(X, f[1] - 1))
                         ELSE lcs_out
    /\ lcs_stack' = Tail(lcs_stack)
    /\ pc' = LcsAfterReturn(Tail(lcs_stack))
    /\ UNCHANGED <<X, Y, lcs_c, lcs_b, lcs_i, lcs_j, notLcs>>

Alphabet == {"A", "B", "C"}

Strings(len) == UNION {[1..k -> Alphabet] : k \in 0..len}

\* main, lines 156-157, 176-177, 199-200.
IsLcsTest1 ==
    /\ X = <<"A", "B", "C", "B", "D", "A", "B">>
    /\ Y = <<"B", "D", "C", "A", "B", "A">>

IsLcsTest2 ==
    /\ X = <<"A", "G", "G", "T", "A", "B">>
    /\ Y = <<"G", "X", "T", "X", "A", "Y", "B">>

IsLcsTest3 ==
    /\ X = <<"A", "C", "C", "G", "G", "T", "C", "G", "A", "G", "T">>
    /\ Y = <<"G", "T", "C", "G", "T", "T", "C", "G", "G", "A", "A", "T">>

\* main, lines 151-152 and 163: lcsLength called on two strings.
InitLcs ==
    /\ \/ /\ X \in Strings(MaxLen)
          /\ Y \in Strings(MaxLen)
       \/ IsLcsTest1
       \/ IsLcsTest2
       \/ IsLcsTest3
    /\ lcs_c = EmptyVec /\ lcs_b = EmptyVec
    /\ lcs_i = 0 /\ lcs_j = 0
    /\ lcs_stack = <<>> /\ lcs_out = <<>>
    /\ pc = "lcs_alloc"
    /\ BSTIdle /\ KnapsackIdle /\ ChainIdle /\ RodIdle

NextLcs ==
    \/ LcsAllocate
    \/ LcsBaseColumn
    \/ LcsBaseRow
    \/ LcsCell
    \/ PrintLcsCall
    \/ PrintLcsBase
    \/ PrintLcsDescend
    \/ PrintLcsReturn

SpecLcs == InitLcs /\ [][NextLcs]_vars

(***************************************************************************)
(* matrixChainOrder                                                        *)
(***************************************************************************)
\* Line 28: n = p.size() - 1.
mc_n == Size(dims) - 1

\* Line 54.
mc_j == mc_i + L - 1

\* Lines 21-23.
ChainTooShort ==
    /\ pc = "mc_start"
    /\ Size(dims) < 2
    /\ min_cost' = 0
    /\ pc' = "mc_done"
    /\ UNCHANGED <<dims, m_table, L, mc_i, mc_k, notChain>>

\* Lines 28-34.
ChainAllocate ==
    /\ pc = "mc_start"
    /\ ~(Size(dims) < 2)
    /\ m_table' = [a \in 0..mc_n |-> ZeroVec(mc_n + 1)]
    /\ mc_i' = 1
    /\ pc' = "mc_base"
    /\ UNCHANGED <<dims, L, mc_k, min_cost, notChain>>

\* Lines 39-41, one iteration, and the loop headers of lines 46 and 50.
ChainBase ==
    /\ pc = "mc_base"
    /\ m_table' = [m_table EXCEPT ![mc_i][mc_i] = 0]
    /\ IF mc_i + 1 <= mc_n
          THEN /\ mc_i' = mc_i + 1
               /\ L' = L
               /\ pc' = "mc_base"
          ELSE IF 2 <= mc_n
                  THEN /\ L' = 2
                       /\ mc_i' = 1
                       /\ pc' = "mc_cell"
                  ELSE /\ L' = 0
                       /\ mc_i' = 0
                       /\ pc' = "mc_return"
    /\ UNCHANGED <<dims, mc_k, min_cost, notChain>>

\* Lines 54-57 and the loop header of line 63.
ChainCellInit ==
    /\ pc = "mc_cell"
    /\ m_table' = [m_table EXCEPT ![mc_i][mc_j] = INT_MAX]
    /\ mc_k' = mc_i
    /\ pc' = "mc_scan"
    /\ UNCHANGED <<dims, L, mc_i, min_cost, notChain>>

MultiplyCost_Shifted(pv, a, k, b) == pv[a] * pv[k] * pv[b]

\* Line 74: p[i - 1] * p[k] * p[j].
MultiplyCost(pv, a, k, b) == pv[a - 1] * pv[k] * pv[b]

\* Line 74.
ChainCost(a, k, b) ==
    m_table[a][k] + m_table[k + 1][b] + MultiplyCost(dims, a, k, b)

\* Lines 63-80, one iteration, and the loop headers of lines 46 and 50.
ChainScan ==
    /\ pc = "mc_scan"
    /\ m_table' = IF ChainCost(mc_i, mc_k, mc_j) < m_table[mc_i][mc_j]
                     THEN [m_table EXCEPT ![mc_i][mc_j] = ChainCost(mc_i, mc_k, mc_j)]
                     ELSE m_table
    /\ IF mc_k + 1 <= mc_j - 1
          THEN /\ mc_k' = mc_k + 1
               /\ pc' = "mc_scan"
               /\ UNCHANGED <<L, mc_i>>
          ELSE IF mc_i + 1 <= mc_n - L + 1
                  THEN /\ mc_i' = mc_i + 1
                       /\ mc_k' = 0
                       /\ L' = L
                       /\ pc' = "mc_cell"
                  ELSE IF L + 1 <= mc_n
                          THEN /\ L' = L + 1
                               /\ mc_i' = 1
                               /\ mc_k' = 0
                               /\ pc' = "mc_cell"
                          ELSE /\ L' = 0
                               /\ mc_i' = 0
                               /\ mc_k' = 0
                               /\ pc' = "mc_return"
    /\ UNCHANGED <<dims, min_cost, notChain>>

\* Line 85.
ChainReturn ==
    /\ pc = "mc_return"
    /\ min_cost' = m_table[1][mc_n]
    /\ pc' = "mc_done"
    /\ UNCHANGED <<dims, m_table, L, mc_i, mc_k, notChain>>

\* main, lines 138 and 166.
IsChainTest1 ==
    dims = [k \in 0..6 |-> CASE k = 0 -> 30 [] k = 1 -> 35 [] k = 2 -> 15 [] k = 3 -> 5
                             [] k = 4 -> 10 [] k = 5 -> 20 [] k = 6 -> 25]

IsChainTest2 ==
    dims = [k \in 0..3 |-> CASE k = 0 -> 10 [] k = 1 -> 20 [] k = 2 -> 30 [] k = 3 -> 10]

DimVectors(len) == UNION {[0..(k - 1) -> 1..MaxDim] : k \in 0..len}

\* main, lines 143 and 168: matrixChainOrder called on a dimension vector.
InitChain ==
    /\ \/ dims \in DimVectors(MaxDims)
       \/ IsChainTest1
       \/ IsChainTest2
    /\ m_table = EmptyVec
    /\ L = 0 /\ mc_i = 0 /\ mc_k = 0
    /\ min_cost = 0
    /\ pc = "mc_start"
    /\ BSTIdle /\ KnapsackIdle /\ LcsIdle /\ RodIdle

NextChain ==
    \/ ChainTooShort
    \/ ChainAllocate
    \/ ChainBase
    \/ ChainCellInit
    \/ ChainScan
    \/ ChainReturn

SpecChain == InitChain /\ [][NextChain]_vars

(***************************************************************************)
(* cutRod                                                                  *)
(***************************************************************************)
\* Line 28: m = prices.size().
rod_m == Size(prices)

\* Lines 23-34 and the loop headers of lines 32 and 38.
RodAllocate ==
    /\ pc = "rod_start"
    /\ rod_val' = [ZeroVec(rod_n + 1) EXCEPT ![0] = 0]
    /\ IF 1 <= rod_n
          THEN /\ rod_j' = 1
               /\ rod_i' = 1
               /\ max_val' = INT_MIN
               /\ pc' = "rod_try"
          ELSE /\ rod_j' = 0
               /\ rod_i' = 0
               /\ max_val' = 0
               /\ pc' = "rod_return"
    /\ UNCHANGED <<prices, rod_n, revenue, notRod>>

\* Line 44.
HasPrice(piece, largest) == piece <= largest

Candidate_NoRest(pv, valv, len, piece) == pv[piece - 1]

\* Line 48: prices[i - 1] + val[j - i].
Candidate(pv, valv, len, piece) == pv[piece - 1] + valv[len - piece]

\* std::max.
StdMax(x, y) == IF x < y THEN y ELSE x

\* Lines 44-49.
TryPiece ==
    IF HasPrice(rod_i, rod_m)
       THEN StdMax(max_val, Candidate(prices, rod_val, rod_j, rod_i))
       ELSE max_val

\* Line 54.
Stored(best) == IF best = INT_MIN THEN 0 ELSE best

\* Lines 38-54, one iteration of the inner loop; after the last one val[j]
\* is stored and the outer loop goes on.
RodTry ==
    /\ pc = "rod_try"
    /\ IF rod_i + 1 <= rod_j
          THEN /\ max_val' = TryPiece
               /\ rod_i' = rod_i + 1
               /\ pc' = "rod_try"
               /\ UNCHANGED <<rod_val, rod_j>>
          ELSE /\ rod_val' = [rod_val EXCEPT ![rod_j] = Stored(TryPiece)]
               /\ IF rod_j + 1 <= rod_n
                     THEN /\ rod_j' = rod_j + 1
                          /\ rod_i' = 1
                          /\ max_val' = INT_MIN
                          /\ pc' = "rod_try"
                     ELSE /\ rod_j' = 0
                          /\ rod_i' = 0
                          /\ max_val' = 0
                          /\ pc' = "rod_return"
    /\ UNCHANGED <<prices, rod_n, revenue, notRod>>

\* Line 58.
RodReturn ==
    /\ pc = "rod_return"
    /\ revenue' = rod_val[rod_n]
    /\ pc' = "rod_done"
    /\ UNCHANGED <<prices, rod_n, rod_val, rod_j, rod_i, max_val, notRod>>

\* main, line 78.
RefPrices ==
    [k \in 0..9 |-> CASE k = 0 -> 1 [] k = 1 -> 5 [] k = 2 -> 8 [] k = 3 -> 9
                      [] k = 4 -> 10 [] k = 5 -> 17 [] k = 6 -> 17 [] k = 7 -> 20
                      [] k = 8 -> 24 [] k = 9 -> 30]

PriceVectors(len) == UNION {[0..(k - 1) -> 0..MaxPrice] : k \in 0..len}

\* main, lines 83-84, 94-95, 105-106: cutRod called on a price vector.
InitRod ==
    /\ \/ /\ prices \in PriceVectors(MaxPieces)
          /\ rod_n \in 0..MaxRod
       \/ /\ prices = RefPrices
          /\ rod_n \in {7, 10, 13}
    /\ rod_val = EmptyVec
    /\ rod_j = 0 /\ rod_i = 0
    /\ max_val = 0 /\ revenue = 0
    /\ pc = "rod_start"
    /\ BSTIdle /\ KnapsackIdle /\ LcsIdle /\ ChainIdle

NextRod ==
    \/ RodAllocate
    \/ RodTry
    \/ RodReturn

SpecRod == InitRod /\ [][NextRod]_vars

(***************************************************************************)
(* Properties of optimalBST and printOptimalStructure                      *)
(***************************************************************************)
Returned == pc \in {"built", "print", "done"}

Min(S) == CHOOSE x \in S : \A y \in S : x <= y

\* The least weighted depth of a search tree on the keys a..b with the gap
\* leaves a-1..b, its root at the given depth, by enumeration of the tree shapes:
\* every node is charged its own weight times its own depth.
RECURSIVE MinTreeCost(_, _, _)
MinTreeCost(a, b, depth) ==
    IF b < a
       THEN depth * q[a - 1]
       ELSE Min({depth * p[k] + MinTreeCost(a, k - 1, depth + 1)
                              + MinTreeCost(k + 1, b, depth + 1) : k \in a..b})

\* C1: after optimalBST returns, every e[a][b] with 1 <= a <= n+1 and
\* a-1 <= b <= n is the least cost, over all search-tree shapes on the keys
\* a..b and the gaps a-1..b, of the sum of weight times depth (the root at
\* depth 1); the empty interval costs q[a-1].
C1_Optimal ==
    Returned =>
        \A a \in 1..(n + 1) : \A b \in (a - 1)..n : e[a][b] = MinTreeCost(a, b, 1)

C1_Witness ==
    /\ pc = "done" /\ n = MaxN
    /\ root[1][n] \notin {1, n}
    /\ e[1][n] = MinTreeCost(1, n, 1)

KeyFacts == {k \in 1..Len(out) : out[k].kind \in {"root", "child"}}

GapFacts == {k \in 1..Len(out) : out[k].kind = "gap"}

\* C2: printOptimalStructure over [1,n] emits exactly n key facts and n+1
\* gap facts; every key 1..n is in exactly one key fact and every gap 0..n
\* in exactly one gap fact.
C2_Complete ==
    pc = "done" =>
        /\ Cardinality(KeyFacts) = n
        /\ Cardinality(GapFacts) = n + 1
        /\ \A x \in 1..n : Cardinality({k \in KeyFacts : out[k].node = x}) = 1
        /\ \A x \in 0..n : Cardinality({k \in GapFacts : out[k].node = x}) = 1

C2_Witness ==
    /\ pc = "done" /\ n = MaxN
    /\ Cardinality(KeyFacts) = MaxN
    /\ Cardinality(GapFacts) = MaxN + 1

\* The cost of the interval [a,b] with key k at its root, from the tables.
TableCost(a, b, k) == e[a][k - 1] + e[k + 1][b] + w[a][b]

\* C3: after optimalBST returns, root[a][b] is the smallest k in a..b that
\* minimises e[a][k-1] + e[k+1][b] + w[a][b], and e[a][b] is that minimum.
C3_FirstMinimum ==
    Returned =>
        \A a \in 1..n : \A b \in a..n :
            /\ root[a][b] \in a..b
            /\ e[a][b] = TableCost(a, b, root[a][b])
            /\ \A k \in a..b : TableCost(a, b, k) >= e[a][b]
            /\ \A k \in a..(root[a][b] - 1) : TableCost(a, b, k) > e[a][b]

\* A tie between two roots of the whole interval, the lower one kept.
C3_Witness ==
    /\ pc = "built" /\ n >= 2
    /\ \E k \in 1..n : k > root[1][n] /\ TableCost(1, n, k) = e[1][n]
    /\ \E k \in 1..n : TableCost(1, n, k) > e[1][n]

RECURSIVE SumRange(_, _, _)
SumRange(v, a, b) == IF b < a THEN 0 ELSE v[b] + SumRange(v, a, b - 1)

\* C4: after optimalBST returns, w[a][b] = sum(p[a..b]) + sum(q[a-1..b]) for
\* every 1 <= a <= n+1 and a-1 <= b <= n.
C4_Weight ==
    Returned =>
        \A a \in 1..(n + 1) : \A b \in (a - 1)..n :
            w[a][b] = SumRange(p, a, b) + SumRange(q, a - 1, b)

C4_Witness ==
    /\ pc = "built" /\ n = MaxN
    /\ w[1][n] = SumRange(p, 1, n) + SumRange(q, 0, n)
    /\ \A k \in 1..n : p[k] > 0 /\ q[k] > 0

RootOf(k) == [kind |-> "root", node |-> k, parent |-> 0, side |-> "none"]

ChildOf(k, parent, side) ==
    [kind |-> "child", node |-> k, parent |-> parent, side |-> side]

GapOf(g, parent, side) ==
    [kind |-> "gap", node |-> g, parent |-> parent, side |-> side]

\* The tree of the reference scenario, in the order of main's lines 184-194.
RefFacts ==
    << RootOf(2),
       ChildOf(1, 2, "left"), GapOf(0, 1, "left"), GapOf(1, 1, "right"),
       ChildOf(5, 2, "right"),
       ChildOf(4, 5, "left"),
       ChildOf(3, 4, "left"), GapOf(2, 3, "left"), GapOf(3, 3, "right"),
       GapOf(4, 4, "right"),
       GapOf(5, 5, "right") >>

\* C5: in the reference scenario (n = 5, p and q of main in hundredths)
\* e[1][5] = 275 and root[1][5] = 2, and the facts printed are, in order,
\* k2 root; k1 left of k2; d0 left of k1; d1 right of k1; k5 right of k2;
\* k4 left of k5; k3 left of k4; d2 left of k3; d3 right of k3; d4 right of
\* k4; d5 right of k5.
C5_Reference ==
    IsRef =>
        /\ Returned => e[1][5] = 275 /\ root[1][5] = 2
        /\ pc = "done" => out = RefFacts

C5_Witness == IsRef /\ pc = "done" /\ Len(out) = 11

\* C6: with n = 0, optimalBST yields e[1][0] = q[0] and printOptimalStructure
\* over [1,0] prints no key fact and exactly one gap fact, for gap 0.
C6_NoKeys ==
    n = 0 =>
        /\ Returned => e[1][0] = q[0]
        /\ pc = "done" =>
              /\ KeyFacts = {}
              /\ Cardinality(GapFacts) = 1
              /\ \A k \in GapFacts : out[k].node = 0

C6_Witness == n = 0 /\ pc = "done" /\ q[0] = 1 /\ e[1][0] = 1 /\ Len(out) = 1

Unwritten(t) == \A a \in DOMAIN t : \A b \in DOMAIN t[a] : t[a][b] = 0

\* C7: called with a p or a q whose length is not n+1, or with a negative
\* probability, optimalBST fails before any computation: no cell of e, w or
\* root is written and no element outside p or q is read.
C7_Rejected ==
    InvalidInput => (~ub /\ pc # "crashed" /\ Unwritten(e) /\ Unwritten(w) /\ Unwritten(root))

Sized(t) ==
    /\ DOMAIN t = 0..(n + 1)
    /\ \A a \in DOMAIN t : (0..(n + 1)) \subseteq DOMAIN t[a]

\* C8: in every call, whatever the tables held before, after the sizing
\* step e, w and root have the rows 0..n+1, each with the columns 0..n+1,
\* and no access of the call is outside a vector.
C8_Sized ==
    pc \in {"base", "cell", "scan", "built", "crashed"} =>
        (Sized(e) /\ Sized(w) /\ Sized(root) /\ ~ub)

\* The facts that name key x as their parent.
ChildrenOf(x) == {k \in 1..Len(out) : out[k].kind # "root" /\ out[k].parent = x}

\* C9: for n >= 1 the facts printed over [1,n] describe one tree in
\* pre-order: the first fact is the only root fact and names root[1][n];
\* every other fact names as parent a key whose own fact came earlier; every
\* key is the parent of exactly two facts, a left-child fact and then a
\* right-child fact; the parent of a fact is never a gap.
C9_PreOrder ==
    (pc = "done" /\ n >= 1) =>
        /\ out[1] = RootOf(root[1][n])
        /\ \A k \in 2..Len(out) :
              /\ out[k].kind # "root"
              /\ \E m \in 1..(k - 1) : m \in KeyFacts /\ out[m].node = out[k].parent
        /\ \A x \in 1..n :
              /\ Cardinality(ChildrenOf(x)) = 2
              /\ \E k1, k2 \in ChildrenOf(x) :
                    /\ k1 < k2
                    /\ out[k1].side = "left"
                    /\ out[k2].side = "right"

C9_Witness ==
    /\ pc = "done" /\ n = MaxN
    /\ \E k \in 2..Len(out) : out[k].kind = "child" /\ out[k].side = "left"
    /\ \E k \in 2..Len(out) : out[k].kind = "child" /\ out[k].side = "right"

(***************************************************************************)
(* Properties of knapsack01                                                *)
(***************************************************************************)
Max(S) == CHOOSE x \in S : \A y \in S : x >= y

RECURSIVE SumOver(_, _)
SumOver(v, S) ==
    IF S = {} THEN 0
    ELSE LET k == CHOOSE x \in S : TRUE IN v[k - 1] + SumOver(v, S \ {k})

\* The largest total value of a set of items among the first a whose total
\* weight is at most c, by enumeration of the sets.
BestValue(a, c) ==
    Max({SumOver(val, S) : S \in {T \in SUBSET (1..a) : SumOver(wt, T) <= c}})

\* C10: after knapsack01 on empty tables, K[a][c] is the largest total value
\* of a subset of the first a items of total weight at most c, for every
\* 0 <= a <= n and 0 <= c <= W (220 for Teste 1 and 18 for Teste 2).
C10_MaxValue ==
    pc = "k_done" =>
        /\ \A a \in 0..kn : \A c \in 0..W : K[a][c] = BestValue(a, c)
        /\ IsTest1 => K[kn][W] = 220
        /\ IsTest2 => K[kn][W] = 18

(***************************************************************************)
(* Properties of lcsLength and printLCS                                    *)
(***************************************************************************)
RECURSIVE IsSubsequence(_, _)
IsSubsequence(s, t) ==
    IF s = <<>> THEN TRUE
    ELSE IF t = <<>> THEN FALSE
    ELSE IF Head(s) = Head(t) THEN IsSubsequence(Tail(s), Tail(t))
    ELSE IsSubsequence(s, Tail(t))

\* The characters of str at the positions S, in their order in str.
RECURSIVE Pick(_, _)
Pick(str, S) ==
    IF S = {} THEN <<>>
    ELSE LET k == Max(S) IN Append(Pick(str, S \ {k}), str[k])

\* The length of a longest common subsequence of X[1..a] and Y[1..k], by
\* enumeration of the subsequences of X[1..a].
LongestCommon(a, k) ==
    Max({Cardinality(S) :
         S \in {T \in SUBSET (1..a) : IsSubsequence(Pick(X, T), SubSeq(Y, 1, k))}})

\* C11: after lcsLength, c[a][k] is the length of a longest common
\* subsequence of X[1..a] and Y[1..k] for all 0 <= a <= m, 0 <= k <= n, and
\* printLCS(b, X, m, n) prints a common subsequence of X and Y of length
\* c[m][n]: length 4 and BCBA for Teste 1, length 4 and GTAB for Teste 2.
C11_Lcs ==
    /\ pc = "lcs_filled" =>
          \A a \in 0..lcs_m : \A k \in 0..lcs_n : lcs_c[a][k] = LongestCommon(a, k)
    /\ pc = "lcs_done" =>
          /\ IsSubsequence(lcs_out, X)
          /\ IsSubsequence(lcs_out, Y)
          /\ Len(lcs_out) = lcs_c[lcs_m][lcs_n]
          /\ IsLcsTest1 => (Len(lcs_out) = 4 /\ lcs_out = <<"B", "C", "B", "A">>)
          /\ IsLcsTest2 => (Len(lcs_out) = 4 /\ lcs_out = <<"G", "T", "A", "B">>)

C11_Witness ==
    /\ pc = "lcs_done"
    /\ Len(X) = MaxLen /\ Len(Y) = MaxLen
    /\ X # Y
    /\ Len(lcs_out) = 2
    /\ lcs_c[lcs_m][lcs_n] = 2

RECURSIVE Parenthesisations(_, _)
Parenthesisations(a, b) ==
    IF a = b
       THEN {<<a>>}
       ELSE UNION {{<<s, t>> : s \in Parenthesisations(a, k),
                               t \in Parenthesisations(k + 1, b)} : k \in a..(b - 1)}

\* The shape of the product a parenthesisation computes and the scalar
\* multiplications it takes, A_a being dims[a-1] x dims[a].
RECURSIVE Product(_)
Product(t) ==
    IF Len(t) = 1
       THEN [rows |-> dims[t[1] - 1], cols |-> dims[t[1]], cost |-> 0]
       ELSE LET x == Product(t[1])
                y == Product(t[2])
            IN  [rows |-> x.rows, cols |-> y.cols,
                 cost |-> x.cost + y.cost + x.rows * x.cols * y.cols]

LeastMultiplications ==
    IF Size(dims) < 2
       THEN 0
       ELSE Min({Product(t).cost : t \in Parenthesisations(1, mc_n)})

\* C13: matrixChainOrder(p) returns the least number of scalar
\* multiplications over all full parenthesisations of A1..An, Ai being
\* p[i-1] x p[i]; 0 when p has fewer than 2 elements or describes a single
\* matrix; 15125 for {30,35,15,5,10,20,25} and 8000 for {10,20,30,10}.
C13_MinChain ==
    pc = "mc_done" =>
        /\ min_cost = LeastMultiplications
        /\ Size(dims) <= 2 => min_cost = 0
        /\ IsChainTest1 => min_cost = 15125
        /\ IsChainTest2 => min_cost = 8000

C13_Witness ==
    /\ pc = "mc_done"
    /\ Size(dims) = MaxDims
    /\ min_cost = LeastMultiplications
    /\ \E t \in Parenthesisations(1, mc_n) : Product(t).cost > min_cost

(***************************************************************************)
(* Properties of cutRod                                                    *)
(***************************************************************************)
\* The ways of cutting a rod of length len into pieces of lengths in
\* 1..largest, each way listed once, its pieces in non-increasing order.
RECURSIVE Cuts(_, _)
Cuts(len, largest) ==
    IF len = 0
       THEN {<<>>}
       ELSE UNION {{<<s>> \o t : t \in Cuts(len - s, s)} :
                   s \in 1..(IF len < largest THEN len ELSE largest)}

RECURSIVE TotalPrice(_)
TotalPrice(cut) ==
    IF cut = <<>> THEN 0 ELSE prices[Head(cut) - 1] + TotalPrice(Tail(cut))

BestRevenue ==
    IF Cuts(rod_n, rod_m) = {}
       THEN 0
       ELSE Max({TotalPrice(cut) : cut \in Cuts(rod_n, rod_m)})

\* C14: cutRod(prices, n) returns the largest total price over all ways of
\* cutting a rod of length n into pieces of lengths in 1..m, also when
\* n > m; 0 when n = 0 or prices is empty; 18, 30 and 38 for n = 7, 10 and
\* 13 with the prices of main.
C14_MaxRevenue ==
    pc = "rod_done" =>
        /\ revenue = BestRevenue
        /\ (rod_n = 0 \/ rod_m = 0) => revenue = 0
        /\ (prices = RefPrices /\ rod_n = 7) => revenue = 18
        /\ (prices = RefPrices /\ rod_n = 10) => revenue = 30
        /\ (prices = RefPrices /\ rod_n = 13) => revenue = 38

C14_Witness ==
    /\ pc = "rod_done"
    /\ rod_n > rod_m /\ rod_m >= 2
    /\ revenue = BestRevenue
    /\ \E cut \in Cuts(rod_n, rod_m) : TotalPrice(cut) < revenue
    /\ revenue > prices[0] * rod_n

(***************************************************************************)
(* Properties of the order of optimalBST's reads and writes                *)
(***************************************************************************)
\* The number of keys of the interval of cell <<table, a, b>>.
IntervalLength(x) == x[3] - x[2] + 1

\* A step of the table builder reads only operands of shorter intervals that
\* were written before, and writes no cell that was read as an operand.
ReadsFinal ==
    pc \in {"base", "cell", "scan"} =>
        /\ \A x \in used' \ used : TimesWritten(writes, x) > 0 /\ IntervalLength(x) < l
        /\ \A x \in used : TimesWritten(writes', x) = TimesWritten(writes, x)

\* C15: at every step of the triple loop, each operand cell read for the
\* interval (i, j) of length l, that is w[i][j-1], e[i][r-1] and e[r+1][j],
\* is of an interval of length < l and has been written in this call, and no
\* cell is written after it was read as an operand.
C15_ReadsFinal == [][ReadsFinal]_vars

C15_Witness ==
    /\ pc = "built" /\ n = MaxN
    /\ \A k \in 1..n : <<"e", 1, k - 1>> \in used /\ <<"e", k + 1, n>> \in used
    /\ <<"w", 1, n - 1>> \in used
    /\ \A x \in used : TimesWritten(writes, x) > 0

\* C16 as claimed: during one run of optimalBST every root[a][b] with
\* 1 <= a <= b <= n is written exactly once, and no root cell of an empty
\* interval is written.
C16_Once ==
    pc = "built" =>
        \A a \in 0..(n + 1) : \A b \in 0..(n + 1) :
            TimesWritten(writes, <<"root", a, b>>) = IF 1 <= a /\ a <= b /\ b <= n THEN 1 ELSE 0

\* The candidate roots of [a, b] whose cost is strictly below the cost of
\* every earlier candidate: k = a, and every later k that lowers the cost.
Improvements(a, b) ==
    {k \in a..b : \A k0 \in a..(k - 1) : TableCost(a, b, k0) > TableCost(a, b, k)}

\* C16: during one run of optimalBST every root[a][b] with 1 <= a <= b <= n
\* is written once for r = a and once more for each later r whose cost is
\* strictly below that of every earlier r, so between 1 and b-a+1 times; no
\* other root cell is written.
C16_Written ==
    pc = "built" =>
        \A a \in 0..(n + 1) : \A b \in 0..(n + 1) :
            IF 1 <= a /\ a <= b /\ b <= n
               THEN /\ TimesWritten(writes, <<"root", a, b>>) = Cardinality(Improvements(a, b))
                    /\ TimesWritten(writes, <<"root", a, b>>) \in 1..(b - a + 1)
               ELSE TimesWritten(writes, <<"root", a, b>>) = 0

C16_Witness ==
    /\ pc = "built" /\ n >= 2
    /\ TimesWritten(writes, <<"root", 1, n>>) >= 2
    /\ TimesWritten(writes, <<"root", 1, 1>>) = 1
    /\ TimesWritten(writes, <<"root", 1, 0>>) = 0

=============================================================================
